---- MODULE Spec2Model ----
(***************************************************************************)
(* Model of app.py of aws-resource-scanner: the parallel scan of every     *)
(* (service, region) pair of config.yaml by all_table and                  *)
(* collect_all_data, the per-task fetch (fetch_resources, extract_info,    *)
(* fetch_single_service_region) and the rendering of the result.           *)
(*                                                                         *)
(* Python values are modelled as records tagged with their Python type:    *)
(*   [py |-> "dict", fields |-> r]   a dict whose items are the fields of r*)
(*   [py |-> "str",  fields |-> ..]  a string where a dict was expected    *)
(*   [py |-> "None", fields |-> ..]  None                                  *)
(* A raised exception is the value [exc |-> TRUE, msg |-> str(e)].         *)
(***************************************************************************)
EXTENDS Integers, Sequences, FiniteSets, TLC

\* app.py:12
MAX_WORKERS == 20

\* Longest services / regions list of config.yaml explored.
MaxServices == 2
MaxRegions == 2
\* Most tasks of one scan (Len(services) * Len(regions)).
MaxTasks == 4
\* Tasks submitted beyond MAX_WORKERS in the worker-pool specification.
PoolExtra == 2
\* Longest list of buckets / reservations of a raw response passed to
\* extract_info directly.
MaxItems == 2

RegionIds == {"us-east-1", "us-west-2"}
\* "s3" and "ec2" are handled by fetch_resources and extract_info; "iam" is a
\* service the SDK knows but no branch handles; "quantum-db" is unknown to
\* the SDK as well.
ServiceIds == {"s3", "ec2", "iam", "quantum-db"}

\* What the provider does for one describe/list call of the deterministic
\* adapter: raise, or return a response of one of these shapes.
Outcomes(service) ==
    IF service = "s3" THEN {"raise", "empty", "two"}
    ELSE {"raise", "two", "malformed"}

VARIABLES
    config,       \* content of config.yaml
    adapter,      \* <<service, region>> -> outcome of the provider call
    endpoint,     \* the scan serving the request: "all_table", "collect_all_data" or "none"
    pc,           \* position of the handler
    regions,      \* local regions of the handler (load_config)
    services,     \* local services of the handler (load_config)
    submitted,    \* number of futures appended to the list futures
    queue,        \* work items waiting in the executor, FIFO
    running,      \* <<service, region>> -> number of workers running that task
    completed,    \* <<service, region>> -> finished futures not yet yielded by as_completed
    executed,     \* <<service, region>> -> times fetch_single_service_region was started
    collected,    \* number of futures the collection loop has processed
    all_results,  \* all_table: service -> (region -> records)
    all_data,     \* collect_all_data: rows
    response,     \* what the handler returned
    call          \* a direct call of extract_info: its arguments and its result

vars == <<config, adapter, endpoint, pc, regions, services, submitted, queue,
          running, completed, executed, collected, all_results, all_data, response,
          call>>

Pairs == ServiceIds \X RegionIds

----------------------------------------------------------------------------
(* Python values *)

None == [py |-> "None", fields |-> [none |-> TRUE]]
Dict(r) == [py |-> "dict", fields |-> r]
NotADict == [py |-> "str", fields |-> [value |-> "garbage"]]

Raise(m) == [exc |-> TRUE, msg |-> m, value |-> None]
Return(v) == [exc |-> FALSE, msg |-> "", value |-> v]

\* d.get(k, default) of a dict d
Get(d, k, default) == IF k \in DOMAIN d.fields THEN d.fields[k] ELSE default

\* Sum of the counts f[p] over the pairs p of S
SumOver(f, S) == Cardinality(UNION {{p} \X (1..f[p]) : p \in S})

\* str.upper() on the identifiers of the model
upper(s) ==
    CASE s = "s3" -> "S3"
      [] s = "ec2" -> "EC2"
      [] s = "iam" -> "IAM"
      [] s = "quantum-db" -> "QUANTUM-DB"
      [] OTHER -> s

\* str.lower() on the status strings of the model
lower(s) ==
    CASE s = "Active" -> "active"
      [] s = "Error" -> "error"
      [] OTHER -> s

----------------------------------------------------------------------------
(* load_config *)

SeqsUpTo(S, n) == UNION {[1..k -> S] : k \in 0..n}

ConfigFiles ==
    {c \in [readable : {TRUE}, regions : SeqsUpTo(RegionIds, MaxRegions),
            services : SeqsUpTo(ServiceIds, MaxServices)] :
        Len(c.regions) * Len(c.services) <= MaxTasks}
    \cup {[readable |-> FALSE, regions |-> <<>>, services |-> <<>>]}

\* app.py:17-22: the two lists of the file, or two empty lists when the file
\* cannot be read.
load_config(cfg) ==
    IF cfg.readable THEN <<cfg.regions, cfg.services>> ELSE <<(<<>>), (<<>>)>>

----------------------------------------------------------------------------
(* The provider (boto3 and AWS), as a deterministic adapter *)

\* Services botocore can build a client for.
SdkServices == {"s3", "ec2", "iam"}

Bucket(region, n) == Dict([Name |-> n \o "@" \o region])

Instance1 ==
    Dict([InstanceId |-> "i-1", InstanceType |-> "t3.micro",
          State |-> Dict([Name |-> "running"]),
          Tags |-> <<Dict([Key |-> "env", Value |-> "prod"]),
                     Dict([Key |-> "Name", Value |-> "web"])>>])

\* An instance without InstanceType and without Tags.
Instance2 == Dict([InstanceId |-> "i-2", State |-> Dict([Name |-> "stopped"])])

\* The response of the call that lists `service` in `region`, by shape.
ProviderResponse(service, region, shape) ==
    CASE service = "s3" /\ shape = "empty" -> Dict([Buckets |-> <<>>])
      [] service = "s3" /\ shape = "two" ->
            Dict([Buckets |-> <<Bucket(region, "b1"), Bucket(region, "b2")>>])
      [] service = "s3" /\ shape = "malformed" ->
            Dict([Buckets |-> <<Bucket(region, "b1"), NotADict>>])
      [] service = "ec2" /\ shape = "empty" -> Dict([Reservations |-> <<>>])
      [] service = "ec2" /\ shape = "two" ->
            Dict([Reservations |-> <<Dict([Instances |-> <<Instance1>>]),
                                     Dict([Instances |-> <<Instance2>>])>>])
      [] service = "ec2" /\ shape = "malformed" ->
            Dict([Reservations |-> <<Dict([Instances |-> <<Instance1, NotADict>>])>>])
      [] OTHER -> Dict([ResponseMetadata |-> "ok"])

\* client.<operation>() for `service`: what the provider answers, given the
\* outcome the adapter has for the call.
ProviderCall(service, region, outcome) ==
    IF outcome = "raise"
    THEN Raise("Throttling")
    ELSE Return(ProviderResponse(service, region, outcome))

\* boto3.client(name, region_name=region)
boto3_client(name, region) ==
    IF name \in SdkServices
    THEN Return(Dict([api |-> name, region |-> region]))
    ELSE Raise("Unknown service: '" \o name \o "'")

----------------------------------------------------------------------------
(* app.py:24-43 *)

\* service_map.get(service, service) on the identifiers of the model
service_map(service) == service

get_boto3_client(service, region) == boto3_client(service_map(service), region)

----------------------------------------------------------------------------
(* app.py:45-49.  A missing tag list (None) and an empty one are both falsy, *)
(* so both are the empty sequence here.                                     *)

RECURSIVE NameTag(_)
NameTag(tags) ==
    IF tags = <<>> THEN "N/A"
    ELSE IF Head(tags).fields.Key = "Name" THEN Head(tags).fields.Value
    ELSE NameTag(Tail(tags))

RECURSIVE JoinTags(_)
JoinTags(tags) ==
    LET t == Head(tags).fields.Key \o "=" \o Head(tags).fields.Value IN
    IF Len(tags) = 1 THEN t ELSE t \o ", " \o JoinTags(Tail(tags))

get_tag(tags, key) ==
    IF tags = <<>> THEN (IF key = "Name" THEN "N/A" ELSE "No Tags")
    ELSE IF key = "Name" THEN NameTag(tags)
    ELSE JoinTags(tags)

----------------------------------------------------------------------------
(* app.py:51-264 extract_info, branches "ec2" and "s3" *)

ErrorRecord(msg) ==
    [Name |-> "Error", ID |-> "N/A", Type |-> msg, Status |-> "Error", Tags |-> "N/A"]

AttributeError == "'str' object has no attribute 'get'"
TypeError == "argument of type 'NoneType' is not iterable"

\* `key in data`
Contains(data, key) ==
    CASE data.py = "dict" -> Return(key \in DOMAIN data.fields)
      [] data.py = "None" -> Raise(TypeError)
      [] OTHER -> Return(FALSE)

\* app.py:57-59: the record of one instance
Ec2Record(i) ==
    IF i.py # "dict" THEN Raise(AttributeError)
    ELSE Return([Name |-> get_tag(Get(i, "Tags", <<>>), "Name"),
                 ID |-> Get(i, "InstanceId", "N/A"),
                 Type |-> Get(i, "InstanceType", "N/A"),
                 Status |-> Get(Get(i, "State", Dict([none |-> TRUE])), "Name", "unknown"),
                 Tags |-> get_tag(Get(i, "Tags", <<>>), "All")])

\* app.py:63-64: the record of one bucket
S3Record(b) ==
    IF b.py # "dict" THEN Raise(AttributeError)
    ELSE Return([Name |-> Get(b, "Name", "N/A"), ID |-> Get(b, "Name", "N/A"),
                 Type |-> "S3 Bucket", Status |-> "Active", Tags |-> "N/A"])

MakeRecord(service, item) ==
    IF service = "ec2" THEN Ec2Record(item) ELSE S3Record(item)

\* One for-loop of extract_info: appends a record per item to `resources`
\* until an item raises.
RECURSIVE AppendRecords(_, _, _)
AppendRecords(service, items, resources) ==
    IF items = <<>> THEN [exc |-> FALSE, msg |-> "", resources |-> resources]
    ELSE LET rec == MakeRecord(service, Head(items)) IN
         IF rec.exc
         THEN [exc |-> TRUE, msg |-> rec.msg, resources |-> resources]
         ELSE AppendRecords(service, Tail(items), Append(resources, rec.value))

\* app.py:55-56: the loop over the reservations around the loop over instances
RECURSIVE AppendReservations(_, _)
AppendReservations(reservations, resources) ==
    IF reservations = <<>> THEN [exc |-> FALSE, msg |-> "", resources |-> resources]
    ELSE LET res == Head(reservations) IN
         IF res.py # "dict"
         THEN [exc |-> TRUE, msg |-> AttributeError, resources |-> resources]
         ELSE LET inner == AppendRecords("ec2", Get(res, "Instances", <<>>), resources) IN
              IF inner.exc THEN inner
              ELSE AppendReservations(Tail(reservations), inner.resources)

\* The try block of extract_info
ExtractBody(service, data) ==
    LET none == [exc |-> FALSE, msg |-> "", resources |-> <<>>]
        key == IF service = "ec2" THEN "Reservations" ELSE "Buckets"
        has == Contains(data, key)
    IN  IF service \notin {"ec2", "s3"} THEN none
        ELSE IF has.exc THEN [exc |-> TRUE, msg |-> has.msg, resources |-> <<>>]
        ELSE IF ~has.value THEN none
        ELSE IF service = "ec2" THEN AppendReservations(data.fields.Reservations, <<>>)
        ELSE AppendRecords("s3", data.fields.Buckets, <<>>)

\* except Exception: pass -- the exception is swallowed and no Error record
\* is appended.
extract_info_silent(service, data) == ExtractBody(service, data).resources

\* app.py:51-264: the records appended so far, plus an Error record when the
\* try block raised.
extract_info(service, data) ==
    LET body == ExtractBody(service, data) IN
    IF body.exc THEN Append(body.resources, ErrorRecord(body.msg))
    ELSE body.resources

----------------------------------------------------------------------------
(* app.py:266-362 fetch_resources *)

\* The try block: the client, then the branch of the service.  A service
\* that no branch handles falls off the end of the chain: None.
FetchBody(region, service, outcome) ==
    LET client == get_boto3_client(service, region) IN
    IF client.exc THEN client
    ELSE IF service = "ec2"
         THEN LET direct == boto3_client("ec2", region) IN
              IF direct.exc THEN direct ELSE ProviderCall(service, region, outcome)
    ELSE IF service = "s3" THEN ProviderCall(service, region, outcome)
    ELSE Return(None)

\* except Exception as e: return {"error": str(e)}
fetch_resources(region, service, outcome) ==
    LET body == FetchBody(region, service, outcome) IN
    IF body.exc THEN Return(Dict([error |-> body.msg])) ELSE body

\* fetch_single_service_region with no exception handled on the way: neither
\* its own try/except nor that of fetch_resources.
fetch_single_unguarded(region, service, outcome) ==
    LET data == FetchBody(region, service, outcome) IN
    IF data.exc THEN data
    ELSE Return(<<region, service, extract_info(service, data.value)>>)

\* app.py:364-371
fetch_single_service_region(region, service, outcome) ==
    LET data == fetch_resources(region, service, outcome) IN
    IF data.exc
    THEN Return(<<region, service, <<ErrorRecord(data.msg)>>>>)
    ELSE Return(<<region, service, extract_info(service, data.value)>>)

----------------------------------------------------------------------------
(* The scan: app.py:407-418 (all_table) and app.py:489-506 (collect_all_data) *)

EmptyMap == [x \in {} |-> x]
NoTasks == [p \in Pairs |-> 0]
\* extract_info is not called on its own.
NoCall == [service |-> "none", data |-> None, returned |-> FALSE, resources |-> <<>>]

\* The task list of `for svc, region in zip(services, regions)`.
TaskListZip(svcs, regs) ==
    [k \in 1..(IF Len(svcs) < Len(regs) THEN Len(svcs) ELSE Len(regs)) |->
        <<svcs[k], regs[k]>>]

\* The task list of a scan that falls back to a default region when the
\* configuration names none.
TaskListDefaultRegion(svcs, regs) ==
    LET rs == IF regs = <<>> THEN <<"us-east-1">> ELSE regs IN
    [k \in 1..(Len(svcs) * Len(rs)) |->
        <<svcs[((k - 1) \div Len(rs)) + 1], rs[((k - 1) % Len(rs)) + 1]>>]

\* for svc in services: for region in regions: submit(..., region, svc)
TaskList(svcs, regs) ==
    [k \in 1..(Len(svcs) * Len(regs)) |->
        <<svcs[((k - 1) \div Len(regs)) + 1], regs[((k - 1) % Len(regs)) + 1]>>]

\* A pool sized by the number of tasks: max_workers=len(services)*len(regions).
OneWorkerPerTask == Len(TaskList(services, regions))

\* ThreadPoolExecutor(max_workers=MAX_WORKERS)
max_workers == MAX_WORKERS

\* Tasks a worker of the pool is running
RunningCount == SumOver(running, Pairs)

\* What fetch_single_service_region returns or raises for each pair and each
\* outcome of its provider call
TaskResults ==
    {<<p, o, fetch_single_service_region(p[2], p[1], o)>> :
        p \in Pairs, o \in UNION {Outcomes(s) : s \in ServiceIds}}

\* future.result() of a finished task
FutureResult(task) ==
    (CHOOSE t \in TaskResults : t[1] = task /\ t[2] = adapter[task])[3]

\* The records of a task that returned
RecordsOf(task) == FutureResult(task).value[3]

\* all_results[service] = {region: resources}: the entry of the service is
\* replaced instead of extended.
InsertReset(report, service, region, resources) ==
    [s \in DOMAIN report \cup {service} |->
        IF s = service THEN [r \in {region} |-> resources] ELSE report[s]]

\* app.py:416-418
Insert(report, service, region, resources) ==
    LET inner == IF service \in DOMAIN report THEN report[service] ELSE EmptyMap
        updated == [r \in DOMAIN inner \cup {region} |->
                        IF r = region THEN resources ELSE inner[r]]
    IN  [s \in DOMAIN report \cup {service} |->
            IF s = service THEN updated ELSE report[s]]

\* app.py:498-506: the rows of one task
RECURSIVE ExportRows(_, _, _)
ExportRows(region, service, resources) ==
    IF resources = <<>> THEN <<>>
    ELSE LET res == Head(resources) IN
         <<[Service |-> upper(service), Region |-> region, Name |-> res.Name,
            ID |-> res.ID, Type |-> res.Type, Status |-> res.Status,
            Tags |-> res.Tags]>>
         \o ExportRows(region, service, Tail(resources))

----------------------------------------------------------------------------
(* Rendering: app.py:449-479 *)

\* app.py:460-465.  Substring tests on the lower-cased status.
StatusClass(status) ==
    LET status_lower == lower(status) IN
    IF status_lower \in {"running", "available", "active"} THEN "status-running"
    ELSE IF status_lower = "stopped" THEN "status-stopped"
    ELSE ""

\* report.get(svc, {}).get(region, [])
Lookup(report, svc, region) ==
    IF svc \in DOMAIN report /\ region \in DOMAIN report[svc]
    THEN report[svc][region] ELSE <<>>

RECURSIVE HtmlRows(_, _)
HtmlRows(region, resources) ==
    IF resources = <<>> THEN <<>>
    ELSE LET res == Head(resources) IN
         <<[Region |-> region, Name |-> res.Name, ID |-> res.ID, Type |-> res.Type,
            Class |-> StatusClass(res.Status), Status |-> res.Status,
            Tags |-> res.Tags]>>
         \o HtmlRows(region, Tail(resources))

\* for region in reversed(regions): the regions of a table are walked from
\* the last entry to the first.
RECURSIVE TableRowsReversed(_, _, _)
TableRowsReversed(report, svc, regs) ==
    IF regs = <<>> THEN <<>>
    ELSE TableRowsReversed(report, svc, Tail(regs))
         \o HtmlRows(Head(regs), Lookup(report, svc, Head(regs)))

\* app.py:454-474: the rows of one table, region by region
RECURSIVE TableRows(_, _, _)
TableRows(report, svc, regs) ==
    IF regs = <<>> THEN <<>>
    ELSE HtmlRows(Head(regs), Lookup(report, svc, Head(regs)))
         \o TableRows(report, svc, Tail(regs))

\* app.py:449-479: one table per entry of services
RECURSIVE Tables(_, _, _)
Tables(report, svcs, regs) ==
    IF svcs = <<>> THEN <<>>
    ELSE LET rows == TableRows(report, Head(svcs), regs) IN
         <<[Title |-> upper(Head(svcs)), Rows |-> rows,
            NoResources |-> (rows = <<>>)]>>
         \o Tables(report, Tail(svcs), regs)

----------------------------------------------------------------------------
(* State machine *)

\* The adapter answers the calls for the handled services of the config;
\* every other pair is never called and is pinned.
Called(cfg) ==
    {p \in Pairs : /\ p[1] \in {"s3", "ec2"}
                   /\ \E i \in DOMAIN cfg.services : cfg.services[i] = p[1]
                   /\ \E j \in DOMAIN cfg.regions : cfg.regions[j] = p[2]}

Adapters(cfg) ==
    {[p \in Pairs |-> IF p \in Called(cfg) THEN f[p] ELSE "empty"] :
        f \in {g \in [Called(cfg) -> UNION {Outcomes(s) : s \in ServiceIds}] :
                    \A p \in Called(cfg) : g[p] \in Outcomes(p[1])}}

Idle ==
    /\ endpoint = "none"
    /\ pc = "idle"
    /\ regions = <<>>
    /\ services = <<>>
    /\ submitted = 0
    /\ queue = <<>>
    /\ running = NoTasks
    /\ completed = NoTasks
    /\ executed = NoTasks
    /\ collected = 0
    /\ all_results = EmptyMap
    /\ all_data = <<>>
    /\ response = [kind |-> "none"]
    /\ call = NoCall

Init ==
    /\ config \in ConfigFiles
    /\ adapter \in Adapters(config)
    /\ Idle

Tasks == TaskList(services, regions)

\* app.py:401-407: GET /all-table up to the executor
all_table_begin ==
    /\ pc = "idle"
    /\ endpoint' = "all_table"
    /\ regions' = load_config(config)[1]
    /\ services' = load_config(config)[2]
    /\ IF regions' = <<>> \/ services' = <<>>
       THEN /\ pc' = "done"
            /\ response' = [kind |-> "text",
                            body |-> "<h3>No regions/services in config.yaml</h3>"]
       ELSE /\ pc' = "submit"
            /\ UNCHANGED response
    /\ UNCHANGED <<call, config, adapter, submitted, queue, running, completed, executed,
                   collected, all_results, all_data>>

\* app.py:484-489: collect_all_data up to the executor, called by the exports
collect_all_data_begin ==
    /\ pc = "idle"
    /\ endpoint' = "collect_all_data"
    /\ regions' = load_config(config)[1]
    /\ services' = load_config(config)[2]
    /\ pc' = IF Len(TaskList(services', regions')) = 0 THEN "return" ELSE "submit"
    /\ UNCHANGED <<call, config, adapter, submitted, queue, running, completed, executed,
                   collected, all_results, all_data, response>>

\* app.py:410-412 / 491-493: one executor.submit
Submit ==
    /\ pc = "submit"
    /\ submitted < Len(Tasks)
    /\ submitted' = submitted + 1
    /\ queue' = Append(queue, Tasks[submitted + 1])
    /\ pc' = IF submitted' = Len(Tasks) THEN "collect" ELSE "submit"
    /\ UNCHANGED <<call, config, adapter, endpoint, regions, services, running, completed,
                   executed, collected, all_results, all_data, response>>

\* A worker thread of the pool takes the next work item; the pool has at
\* most max_workers threads, each running one item at a time.
Start ==
    /\ queue # <<>>
    /\ RunningCount < max_workers
    /\ queue' = Tail(queue)
    /\ running' = [running EXCEPT ![Head(queue)] = @ + 1]
    /\ executed' = [executed EXCEPT ![Head(queue)] = @ + 1]
    /\ UNCHANGED <<call, config, adapter, endpoint, pc, regions, services, submitted,
                   completed, collected, all_results, all_data, response>>

\* fetch_single_service_region returns in a worker: the future is finished.
Finish(task) ==
    /\ running[task] > 0
    /\ running' = [running EXCEPT ![task] = @ - 1]
    /\ completed' = [completed EXCEPT ![task] = @ + 1]
    /\ UNCHANGED <<call, config, adapter, endpoint, pc, regions, services, submitted,
                   queue, executed, collected, all_results, all_data, response>>

\* The code after the loop indented into the loop: it runs after the first
\* iteration.
AfterCollectEarly(n, last) == last

\* Position after one iteration of the as_completed loop
AfterCollect(n, last) == IF n = Len(Tasks) THEN last ELSE "collect"

\* for future in futures: future.result() -- the loop waits for the futures
\* in the order they were submitted.
in_submission_order(task) ==
    /\ completed[task] > 0
    /\ task = Tasks[collected + 1]

\* app.py:414 / 495: as_completed(futures) yields any future that has
\* finished and was not yielded before.
as_completed(task) == completed[task] > 0

\* app.py:414-418: as_completed yields a finished future
all_table_collect(task) ==
    /\ pc = "collect"
    /\ endpoint = "all_table"
    /\ as_completed(task)
    /\ completed' = [completed EXCEPT ![task] = @ - 1]
    /\ collected' = collected + 1
    /\ LET result == FutureResult(task) IN
       IF result.exc
       THEN /\ pc' = "done"
            /\ response' = [kind |-> "exception", body |-> result.msg]
            /\ UNCHANGED all_results
       ELSE /\ all_results' = Insert(all_results, result.value[2], result.value[1],
                                     result.value[3])
            /\ pc' = AfterCollect(collected', "render")
            /\ UNCHANGED response
    /\ UNCHANGED <<call, config, adapter, endpoint, regions, services, submitted, queue,
                   running, executed, all_data>>

\* app.py:495-506: as_completed yields a finished future
collect_all_data_collect(task) ==
    /\ pc = "collect"
    /\ endpoint = "collect_all_data"
    /\ as_completed(task)
    /\ completed' = [completed EXCEPT ![task] = @ - 1]
    /\ collected' = collected + 1
    /\ LET result == FutureResult(task) IN
       IF result.exc
       THEN /\ pc' = "done"
            /\ response' = [kind |-> "exception", body |-> result.msg]
            /\ UNCHANGED all_data
       ELSE /\ all_data' = all_data \o ExportRows(result.value[1], result.value[2],
                                                  result.value[3])
            /\ pc' = AfterCollect(collected', "return")
            /\ UNCHANGED response
    /\ UNCHANGED <<call, config, adapter, endpoint, regions, services, submitted, queue,
                   running, executed, all_results>>

\* app.py:420-482: the page
all_table_render ==
    /\ pc = "render"
    /\ pc' = "done"
    /\ response' = [kind |-> "html", body |-> Tables(all_results, services, regions)]
    /\ UNCHANGED <<call, config, adapter, endpoint, regions, services, submitted, queue,
                   running, completed, executed, collected, all_results, all_data>>

CsvHeader == <<"Service", "Region", "Name", "ID", "Type", "Status", "Tags">>

\* app.py:510-518
export_json ==
    /\ pc = "return"
    /\ pc' = "done"
    /\ response' = [kind |-> "file", media |-> "application/json", body |-> all_data]
    /\ UNCHANGED <<call, config, adapter, endpoint, regions, services, submitted, queue,
                   running, completed, executed, collected, all_results, all_data>>

\* app.py:520-535
export_csv ==
    /\ pc = "return"
    /\ pc' = "done"
    /\ response' = IF all_data = <<>>
                   THEN [kind |-> "json", body |-> [error |-> "No data to export"]]
                   ELSE [kind |-> "file", media |-> "text/csv",
                         body |-> <<CsvHeader>> \o all_data]
    /\ UNCHANGED <<call, config, adapter, endpoint, regions, services, submitted, queue,
                   running, completed, executed, collected, all_results, all_data>>

\* app.py:537-557
export_excel ==
    /\ pc = "return"
    /\ pc' = "done"
    /\ response' = IF all_data = <<>>
                   THEN [kind |-> "json", body |-> [error |-> "No data to export"]]
                   ELSE [kind |-> "file", media |-> "application/vnd.ms-excel",
                         body |-> <<"AWS Resources Export", "Generated", Len(all_data)>>
                                  \o <<CsvHeader>> \o all_data]
    /\ UNCHANGED <<call, config, adapter, endpoint, regions, services, submitted, queue,
                   running, completed, executed, collected, all_results, all_data>>

Next ==
    \/ all_table_begin
    \/ collect_all_data_begin
    \/ Submit
    \/ Start
    \/ \E task \in Pairs : Finish(task)
    \/ \E task \in Pairs : all_table_collect(task)
    \/ \E task \in Pairs : collect_all_data_collect(task)
    \/ all_table_render
    \/ export_json
    \/ export_csv
    \/ export_excel

Spec == Init /\ [][Next]_vars

\* The threads of the pool and the handler's thread are scheduled by the
\* operating system, and every provider call returns or raises.
LiveSpec == Spec /\ WF_vars(Next)

----------------------------------------------------------------------------
(* A scan of more tasks than the pool has workers: GET /all-table with one  *)
(* service and MAX_WORKERS + PoolExtra region entries.                      *)

\* The adapter of the specification's example: for s3, us-east-1 answers
\* with two buckets and the call for us-west-2 fails; for ec2, us-east-1
\* answers with a malformed response and us-west-2 with two instances.
ExampleAdapter ==
    [p \in Pairs |->
        CASE p = <<"s3", "us-east-1">> -> "two"
          [] p = <<"s3", "us-west-2">> -> "raise"
          [] p = <<"ec2", "us-east-1">> -> "malformed"
          [] p = <<"ec2", "us-west-2">> -> "two"
          [] OTHER -> "empty"]

PoolConfig ==
    [readable |-> TRUE, services |-> <<"s3">>,
     regions |-> [k \in 1..(MAX_WORKERS + PoolExtra) |->
                    IF k % 2 = 1 THEN "us-east-1" ELSE "us-west-2"]]

InitPool ==
    /\ config = PoolConfig
    /\ adapter = ExampleAdapter
    /\ Idle

NextPool ==
    \/ all_table_begin
    \/ Submit
    \/ Start
    \/ \E task \in Pairs : Finish(task)
    \/ \E task \in Pairs : all_table_collect(task)
    \/ all_table_render

SpecPool == InitPool /\ [][NextPool]_vars

----------------------------------------------------------------------------
(* extract_info called directly on every service identifier and on raw      *)
(* responses of every shape: None, a string, dicts without the key of the   *)
(* service, and lists of well-formed and malformed items.                   *)

BucketItems ==
    {Bucket("us-east-1", "b1"), Dict([CreationDate |-> "2024-01-01"]), NotADict}

ReservationItems ==
    {Dict([Instances |-> <<Instance1>>]),
     Dict([Instances |-> <<Instance2, NotADict>>]),
     Dict([OwnerId |-> "123456789012"]),
     NotADict}

RawResponses ==
    {None, NotADict, Dict([error |-> "Throttling"]), Dict([ResponseMetadata |-> "ok"])}
    \cup {Dict([Buckets |-> items]) : items \in SeqsUpTo(BucketItems, MaxItems)}
    \cup {Dict([Reservations |-> items]) : items \in SeqsUpTo(ReservationItems, MaxItems)}

InitExtract ==
    /\ config = [readable |-> FALSE, regions |-> <<>>, services |-> <<>>]
    /\ adapter = ExampleAdapter
    /\ endpoint = "none"
    /\ pc = "idle"
    /\ regions = <<>>
    /\ services = <<>>
    /\ submitted = 0
    /\ queue = <<>>
    /\ running = NoTasks
    /\ completed = NoTasks
    /\ executed = NoTasks
    /\ collected = 0
    /\ all_results = EmptyMap
    /\ all_data = <<>>
    /\ response = [kind |-> "none"]
    /\ call \in [service : ServiceIds, data : RawResponses, returned : {FALSE},
                 resources : {<<>>}]

\* app.py:51-264: extract_info(service, data) runs and returns.
extract_info_call ==
    /\ ~call.returned
    /\ call.service \in ServiceIds
    /\ call' = [call EXCEPT !.returned = TRUE,
                            !.resources = extract_info(call.service, call.data)]
    /\ UNCHANGED <<config, adapter, endpoint, pc, regions, services, submitted,
                   queue, running, completed, executed, collected, all_results,
                   all_data, response>>

NextExtract == extract_info_call

SpecExtract == InitExtract /\ [][NextExtract]_vars

----------------------------------------------------------------------------
(* Properties *)

\* The (service, region) pairs of the request
Requested == {<<services[i], regions[j]>> : i \in DOMAIN services, j \in DOMAIN regions}

\* The (service, region) keys of a report
ReportKeys(report) == {p \in Pairs : p[1] \in DOMAIN report /\ p[2] \in DOMAIN report[p[1]]}

\* The provider call of this pair is made and raises.
CallFails(p) == p[1] \in {"s3", "ec2"} /\ adapter[p] = "raise"

\* The provider call of this pair is made and returns a response.
CallReturns(p) == p[1] \in {"s3", "ec2"} /\ adapter[p] # "raise"

\* all_table has left the collection loop of a scan it started.
FullScanDone ==
    /\ endpoint = "all_table"
    /\ \/ pc = "render"
       \/ pc = "done" /\ response.kind = "html"

\* collect_all_data has left its collection loop.
ExportScanDone ==
    /\ endpoint = "collect_all_data"
    /\ \/ pc = "return"
       \/ pc = "done" /\ response.kind # "exception"

\* C1: after a full scan of all_table the keys of all_results are exactly
\* the requested (service, region) pairs, whatever the completion order.
C1_KeySetExact ==
    FullScanDone => ReportKeys(all_results) = Requested

C1_Witness ==
    /\ FullScanDone
    /\ pc = "done"
    /\ Cardinality(Requested) = 4
    /\ ReportKeys(all_results) = Requested

\* C2: a task whose provider call raises is stored in the report as exactly
\* one synthetic Error record carrying the failure message.
C2_ErrorRecordOnFailure ==
    FullScanDone =>
        \A p \in Requested :
            CallFails(p) => Lookup(all_results, p[1], p[2]) = <<ErrorRecord("Throttling")>>

\* C3: no exception escapes the collection loop, and after the scan every
\* task whose call returned has the records of its own response in the
\* report, whichever other tasks failed.
C3_FaultIsolation ==
    /\ response.kind # "exception"
    /\ FullScanDone =>
        \A p \in Requested :
            CallReturns(p) =>
                /\ p \in ReportKeys(all_results)
                /\ all_results[p[1]][p[2]] =
                       extract_info(p[1], ProviderResponse(p[1], p[2], adapter[p]))

C3_Witness ==
    /\ FullScanDone
    /\ pc = "done"
    /\ \E p \in Requested, q \in Requested :
          /\ CallFails(p)
          /\ CallReturns(q)
          /\ Len(all_results[q[1]][q[2]]) = 2
          /\ \E u \in Requested : u[1] \notin {"s3", "ec2"}

\* C4: a service no branch of fetch_resources handles is stored in the
\* report as exactly one Error record.
C4_UnknownServiceErrorRecord ==
    FullScanDone =>
        \A p \in Requested :
            p[1] \notin {"s3", "ec2"} =>
                /\ Len(Lookup(all_results, p[1], p[2])) = 1
                /\ Lookup(all_results, p[1], p[2])[1].Name = "Error"
                /\ Lookup(all_results, p[1], p[2])[1].Status = "Error"

\* C5: duplicates of the configuration are removed before the tasks are
\* built: no (service, region) pair is executed more than once.
C5_Deduplicated ==
    \A p \in Pairs : executed[p] <= 1

\* C6: with no region or no service the handler submits no task, makes no
\* call, leaves the report and the row list empty and raises nothing.
C6_EmptyInput ==
    (pc # "idle" /\ (regions = <<>> \/ services = <<>>)) =>
        /\ submitted = 0
        /\ queue = <<>>
        /\ executed = NoTasks
        /\ running = NoTasks
        /\ completed = NoTasks
        /\ all_results = EmptyMap
        /\ all_data = <<>>
        /\ response.kind # "exception"

C6_Witness ==
    /\ pc = "done"
    /\ endpoint = "collect_all_data"
    /\ regions = <<>>
    /\ services # <<>>
    /\ all_data = <<>>

\* C7: at most MAX_WORKERS tasks are running at any time.
C7_BoundedWorkers ==
    RunningCount <= MAX_WORKERS

\* MAX_WORKERS tasks are running and another one waits for a worker.
C7_Witness ==
    /\ RunningCount = MAX_WORKERS
    /\ queue # <<>>

\* Every submitted task has finished and has been recorded.
AllRecorded ==
    /\ submitted = Len(Tasks)
    /\ collected = Len(Tasks)
    /\ queue = <<>>
    /\ running = NoTasks
    /\ completed = NoTasks
    /\ SumOver(executed, Pairs) = Len(Tasks)
    /\ endpoint = "all_table" => ReportKeys(all_results) = Requested

\* C8: the handler renders or returns only when every task has finished and
\* been recorded, and a request that was started is eventually answered.
C8_Synchronous ==
    /\ [](pc \in {"render", "return", "done"} => AllRecorded)
    /\ (pc # "idle") ~> (pc = "done")

C8_Witness ==
    /\ pc = "done"
    /\ collected = 4
    /\ Cardinality(Requested) = 4

\* The report the adapter determines: under every requested key the records
\* fetch_single_service_region returns for that pair.
ExpectedReport ==
    [s \in {services[i] : i \in DOMAIN services} |->
        [r \in {regions[j] : j \in DOMAIN regions} |->
            RecordsOf(<<s, r>>)]]

\* C9: for a fixed configuration and adapter every interleaving and
\* completion order ends with the same report: the same keys and the same
\* records under every key.
C9_OrderIndependent ==
    FullScanDone => all_results = ExpectedReport

C9_Witness ==
    /\ FullScanDone
    /\ Cardinality(Requested) = 4
    /\ \E p \in Requested, q \in Requested :
          /\ p # q
          /\ Len(all_results[p[1]][p[2]]) = 2
          /\ Len(all_results[q[1]][q[2]]) = 2
          /\ all_results[p[1]][p[2]] # all_results[q[1]][q[2]]

\* Records of the report of the requested pairs, in total
TotalRecords ==
    SumOver([p \in Pairs |-> Len(RecordsOf(p))], Requested)

\* The export row of a record of a pair
RowOf(p, res) ==
    [Service |-> upper(p[1]), Region |-> p[2], Name |-> res.Name, ID |-> res.ID,
     Type |-> res.Type, Status |-> res.Status, Tags |-> res.Tags]

\* C10: collect_all_data returns one row per (service, region, record)
\* triple of the report: as many rows as the report has records, each row
\* the service, the region and the fields of its record.
C10_Flattening ==
    ExportScanDone =>
        /\ Len(all_data) = TotalRecords
        /\ \A k \in DOMAIN all_data :
              \E p \in Requested :
                  \E n \in DOMAIN RecordsOf(p) : all_data[k] = RowOf(p, RecordsOf(p)[n])

\* The export rows in input order: services, then regions, then the records
\* of the pair in the order of its response; from entry i of services and
\* entry j of regions on.
RECURSIVE RowsInInputOrder(_, _)
RowsInInputOrder(i, j) ==
    IF i > Len(services) THEN <<>>
    ELSE IF j > Len(regions) THEN RowsInInputOrder(i + 1, 1)
    ELSE ExportRows(regions[j], services[i], RecordsOf(<<services[i], regions[j]>>))
         \o RowsInInputOrder(i, j + 1)

\* C11: the rows collect_all_data returns are in input order (services, then
\* regions, then the records of the pair), whatever the completion order.
C11_ExportRowOrder ==
    ExportScanDone => all_data = RowsInInputOrder(1, 1)

\* The rows of the table of entry i of services in input order: the rows of
\* the records of (services[i], regions[j]) from entry j of regions on.
RECURSIVE RowsOfTable(_, _)
RowsOfTable(i, j) ==
    IF j > Len(regions) THEN <<>>
    ELSE HtmlRows(regions[j], RecordsOf(<<services[i], regions[j]>>))
         \o RowsOfTable(i, j + 1)

\* C12: the page of all_table has one table per entry of services, in the
\* order of services, and the rows of each table are grouped by region in
\* the order of regions, whatever the completion order.
C12_TableOrder ==
    (pc = "done" /\ response.kind = "html") =>
        /\ Len(response.body) = Len(services)
        /\ \A i \in DOMAIN services :
              /\ response.body[i].Title = upper(services[i])
              /\ response.body[i].Rows = RowsOfTable(i, 1)

\* Two tables, ec2 after s3, the first with rows of us-west-2 before rows of
\* us-east-1 as the configuration lists them.
C12_Witness ==
    /\ pc = "done"
    /\ response.kind = "html"
    /\ services = <<"s3", "ec2">>
    /\ regions = <<"us-west-2", "us-east-1">>
    /\ Len(response.body) = 2
    /\ Len(response.body[1].Rows) = 4
    /\ response.body[1].Rows[1].Region = "us-west-2"
    /\ response.body[1].Rows[3].Region = "us-east-1"
    /\ response.body[2].Rows # <<>>

\* The scan produces no record: every requested pair has an empty list.
NoRecordsProduced == \A p \in Requested : RecordsOf(p) = <<>>

\* An explicit "no data" answer: the notice of all_table for an empty
\* configuration, a page whose tables all carry the "No resources found"
\* row, or the JSON object {"error": "No data to export"}.
NoDataResponse ==
    \/ response.kind = "text"
    \/ /\ response.kind = "html"
       /\ \A i \in DOMAIN response.body : response.body[i].NoResources
    \/ /\ response.kind = "json"
       /\ response.body = [error |-> "No data to export"]

\* C13: in every output mode (the page of all_table and the JSON, CSV and
\* Excel exports) a scan that produced no records is answered with an
\* explicit "no data" placeholder, never with a failure or a data file.
C13_NoDataPlaceholder ==
    (pc = "done" /\ NoRecordsProduced) => NoDataResponse

\* The key of the response extract_info reads for a service it handles
KeyOf(service) == IF service = "ec2" THEN "Reservations" ELSE "Buckets"

\* The response is a dict that has the key of the handled service.
HasKey(service, data) ==
    /\ service \in {"s3", "ec2"}
    /\ data.py = "dict"
    /\ KeyOf(service) \in DOMAIN data.fields

\* Some bucket, reservation or instance of the response is not a dict.
BadItem(service, data) ==
    LET items == data.fields[KeyOf(service)] IN
    \E k \in DOMAIN items :
        \/ items[k].py # "dict"
        \/ /\ service = "ec2"
           /\ "Instances" \in DOMAIN items[k].fields
           /\ \E n \in DOMAIN items[k].fields.Instances :
                 items[k].fields.Instances[n].py # "dict"

\* A malformed response of a handled service: None, or a list with an item
\* that is not a dict.
Malformed(service, data) ==
    /\ service \in {"s3", "ec2"}
    /\ \/ data.py = "None"
       \/ HasKey(service, data) /\ BadItem(service, data)

IsErrorRecord(r) == r.Name = "Error" /\ r.Status = "Error"

C15_OkOrErr ==
    \A p \in ReportKeys(all_results) :
        LET resources == all_results[p[1]][p[2]] IN
        \/ \A k \in DOMAIN resources : ~IsErrorRecord(resources[k])
        \/ Len(resources) = 1 /\ IsErrorRecord(resources[1])

\* C16: a slow task does not block the collection of faster ones: once the
\* collection loop runs, whenever a task is still running and another one
\* has finished, the loop can take the finished task's result and record it
\* without waiting for the running one.
C16_NoBlocking ==
    \A p \in Pairs, q \in Pairs :
        (pc = "collect" /\ running[p] > 0 /\ completed[q] > 0) =>
            ENABLED (all_table_collect(q) \/ collect_all_data_collect(q))

\* The first task submitted is still running while the result of the second
\* one is already in the report.
C16_Witness ==
    /\ pc = "collect"
    /\ endpoint = "all_table"
    /\ Len(Tasks) >= 2
    /\ Tasks[1] # Tasks[2]
    /\ running[Tasks[1]] > 0
    /\ Tasks[2] \in ReportKeys(all_results)
    /\ Tasks[1] \notin ReportKeys(all_results)

====
